---------------------------- MODULE Spec2Model ----------------------------
(***************************************************************************)
(* Model of the IPFS viewer: the search / fetch / handleResponse pipeline  *)
(* of the two entry points of the repository,                              *)
(*   "main" : src/src/main.ts       (one top-level fetch + handleResponse) *)
(*   "app"  : src/unnamed/part_000  (search box, showLoading, searchRaw)   *)
(* Text is modelled by TLA+ strings, payloads by sequences of bytes, and a *)
(* value that may be absent (null / undefined) by a sequence of length 0   *)
(* or 1.  Every await of the code is a separate action, so that requests   *)
(* interleave exactly where the JavaScript event loop lets them.           *)
(***************************************************************************)
EXTENDS Integers, Sequences, FiniteSets, TLC

VARIABLES
    entry,       \* which entry point runs: "main" or "app"
    appPresent,  \* whether document.querySelector('#app') finds an element
    reqs,        \* the requests issued so far, in issue order
    app,         \* the display slot: the fragment last written to #app.innerHTML
    owner,       \* index in reqs of the request that wrote app (0: nobody yet)
    objectURLs   \* the object URLs created and not revoked (blob URL store)

vars == <<entry, appPresent, reqs, app, owner, objectURLs>>

-----------------------------------------------------------------------------
(* Bounds of the model.                                                    *)

MaxRequests == 3   \* requests issued in one behaviour of the app
MaxLen == 2        \* length of the exhaustively enumerated payloads

-----------------------------------------------------------------------------
(* Optional values and strings.                                            *)

None == <<>>
Some(v) == <<v>>

\* (a test for null alone, which lets the empty string through)
FalsyNullOnly(x) == x = None

\* JavaScript's !x for x : string | null | undefined
Falsy(x) == x = None \/ x[1] = ""

\* String.prototype.startsWith
StartsWith(s, p) == Len(s) >= Len(p) /\ SubSeq(s, 1, Len(p)) = p

CharAt(s, i) == SubSeq(s, i, i)

\* s.replace(/c/g, r) for a one-character pattern c
\* (characters lo..hi of s, halving the range to keep the evaluation shallow)
RECURSIVE ReplaceRange(_, _, _, _, _)
ReplaceRange(s, lo, hi, c, r) ==
    IF lo > hi THEN ""
    ELSE IF lo = hi THEN (IF CharAt(s, lo) = c THEN r ELSE CharAt(s, lo))
    ELSE ReplaceRange(s, lo, (lo + hi) \div 2, c, r)
         \o ReplaceRange(s, (lo + hi) \div 2 + 1, hi, c, r)

ReplaceAll(s, c, r) == ReplaceRange(s, 1, Len(s), c, r)

\* whether the one-character string c occurs in s
Contains(s, c) == \E i \in 1..Len(s) : CharAt(s, i) = c

-----------------------------------------------------------------------------
(* Classification predicates.                                              *)

isImage(mime) == StartsWith(mime, "image/")

isVideo(mime) == StartsWith(mime, "video/")

isAudio(mime) == StartsWith(mime, "audio/")

isHTML(mime) == mime = "text/html" \/ mime = "application/xhtml+xml"

isText(mime) == StartsWith(mime, "text/") /\ ~isHTML(mime)

isPDF(mime) == mime = "application/pdf"

archiveTypes ==
    { "application/zip", "application/x-zip-compressed",
      "application/x-rar-compressed", "application/x-7z-compressed",
      "application/gzip", "application/x-gzip", "application/x-tar",
      "application/x-bzip2" }

isArchive(mime) == mime \in archiveTypes

isJSON(mime) == mime = "application/json" \/ mime = "text/json"

\* (the chain with the text/ rule tried before the HTML rule)
DispatchSwapped(mime) ==
    IF isImage(mime) THEN "handleImage"
    ELSE IF isVideo(mime) THEN "handleVideo"
    ELSE IF isAudio(mime) THEN "handleAudio"
    ELSE IF StartsWith(mime, "text/") THEN "handleText"
    ELSE IF isHTML(mime) THEN "handleHTML"
    ELSE IF isPDF(mime) THEN "handlePDF"
    ELSE IF isArchive(mime) THEN "handleArchive"
    ELSE IF isJSON(mime) THEN "handleJSON"
    ELSE "handleBinary"

\* The dispatch chain of handleResponse: the name of the handler it awaits.
Dispatch(mime) ==
    IF isImage(mime) THEN "handleImage"
    ELSE IF isVideo(mime) THEN "handleVideo"
    ELSE IF isAudio(mime) THEN "handleAudio"
    ELSE IF isHTML(mime) THEN "handleHTML"
    ELSE IF isText(mime) THEN "handleText"
    ELSE IF isPDF(mime) THEN "handlePDF"
    ELSE IF isArchive(mime) THEN "handleArchive"
    ELSE IF isJSON(mime) THEN "handleJSON"
    ELSE "handleBinary"

\* mimeType = detected?.mime || 'application/octet-stream'
DetectedOrDefault(detected) ==
    IF Falsy(detected) THEN "application/octet-stream" ELSE detected[1]

-----------------------------------------------------------------------------
(* getExtensionFromMime: the two tables.                                   *)

mimeToExtMain ==
    [ m \in { "image/jpeg", "image/png", "image/gif", "image/webp",
              "image/svg+xml", "video/mp4", "video/webm", "video/ogg",
              "audio/mp3", "audio/mpeg", "audio/wav", "audio/ogg",
              "application/pdf", "application/zip",
              "application/x-rar-compressed", "application/x-7z-compressed",
              "text/plain", "text/html", "application/json" } |->
        CASE m = "image/jpeg" -> "jpg"
          [] m = "image/png" -> "png"
          [] m = "image/gif" -> "gif"
          [] m = "image/webp" -> "webp"
          [] m = "image/svg+xml" -> "svg"
          [] m = "video/mp4" -> "mp4"
          [] m = "video/webm" -> "webm"
          [] m = "video/ogg" -> "ogv"
          [] m = "audio/mp3" -> "mp3"
          [] m = "audio/mpeg" -> "mp3"
          [] m = "audio/wav" -> "wav"
          [] m = "audio/ogg" -> "ogg"
          [] m = "application/pdf" -> "pdf"
          [] m = "application/zip" -> "zip"
          [] m = "application/x-rar-compressed" -> "rar"
          [] m = "application/x-7z-compressed" -> "7z"
          [] m = "text/plain" -> "txt"
          [] m = "text/html" -> "html"
          [] m = "application/json" -> "json" ]

mimeToExtApp ==
    [ m \in { "image/jpeg", "image/png", "image/gif", "image/webp",
              "video/mp4", "video/webm", "audio/mpeg", "audio/wav",
              "application/pdf", "application/zip",
              "application/x-rar-compressed", "application/x-7z-compressed",
              "text/plain", "text/html", "application/json" } |->
        mimeToExtMain[m] ]

\* (the lookup without its || 'bin' default: an unmapped type gives undefined)
getExtensionFromMimeNoDefault(e, mime) ==
    LET map == IF e = "main" THEN mimeToExtMain ELSE mimeToExtApp
    IN  IF mime \in DOMAIN map THEN map[mime] ELSE "undefined"

\* getExtensionFromMime: map[mime] || 'bin'
getExtensionFromMime(e, mime) ==
    LET map == IF e = "main" THEN mimeToExtMain ELSE mimeToExtApp
    IN  IF mime \in DOMAIN map THEN map[mime] ELSE "bin"

-----------------------------------------------------------------------------
(* Payload bytes and their decoding (Response.text()).                     *)
(* The payloads of the model are made of the bytes below (ASCII), for      *)
(* which UTF-8 decoding is one character per byte.                         *)

TextBytes == {10, 34, 49, 58, 60, 62, 97, 123, 125}

Chr(b) ==
    CASE b = 10 -> "\n"
      [] b = 34 -> "\""
      [] b = 49 -> "1"
      [] b = 58 -> ":"
      [] b = 60 -> "<"
      [] b = 62 -> ">"
      [] b = 97 -> "a"
      [] b = 123 -> "{"
      [] b = 125 -> "}"

RECURSIVE DecodeRange(_, _, _)
DecodeRange(bytes, lo, hi) ==
    IF lo > hi THEN ""
    ELSE IF lo = hi THEN Chr(bytes[lo])
    ELSE DecodeRange(bytes, lo, (lo + hi) \div 2)
         \o DecodeRange(bytes, (lo + hi) \div 2 + 1, hi)

\* await resp.text()
text(bytes) == DecodeRange(bytes, 1, Len(bytes))

\* the escaping of the text, JSON and view-source blocks
EscapeLtGt(s) == ReplaceAll(ReplaceAll(s, "<", "&lt;"), ">", "&gt;")

\* the escaping of the srcdoc attribute value
EscapeQuot(s) == ReplaceAll(s, "\"", "&quot;")

-----------------------------------------------------------------------------
(* handleBinary's hex preview.                                             *)

HexPreviewBytes == 256   \* bytes.slice(0, 256)
HexChunkChars == 48      \* /.{1,48}/g

HexDigits == "0123456789abcdef"

\* b.toString(16) for a byte b
toString16(b) ==
    IF b < 16 THEN CharAt(HexDigits, b + 1)
    ELSE CharAt(HexDigits, (b \div 16) + 1) \o CharAt(HexDigits, (b % 16) + 1)

\* s.padStart(2, '0')
padStart2(s) == IF Len(s) < 2 THEN "0" \o s ELSE s

\* bytes.slice(0, n)
slice0(bytes, n) == SubSeq(bytes, 1, IF Len(bytes) < n THEN Len(bytes) ELSE n)

\* Array.prototype.join
RECURSIVE JoinRange(_, _, _, _)
JoinRange(parts, lo, hi, sep) ==
    IF lo > hi THEN ""
    ELSE IF lo = hi THEN parts[lo]
    ELSE JoinRange(parts, lo, (lo + hi) \div 2, sep) \o sep
         \o JoinRange(parts, (lo + hi) \div 2 + 1, hi, sep)

join(parts, sep) == JoinRange(parts, 1, Len(parts), sep)

\* s.match(/.{1,n}/g) for s without line terminators: the greedy chunks of at
\* most n characters, or null (None) when there is no match
RECURSIVE ChunksFrom(_, _, _)
ChunksFrom(s, i, n) ==
    IF i > Len(s) THEN <<>>
    ELSE <<SubSeq(s, i, IF i + n - 1 > Len(s) THEN Len(s) ELSE i + n - 1)>>
         \o ChunksFrom(s, i + n, n)

matchChunks(s, n) == IF s = "" THEN None ELSE Some(ChunksFrom(s, 1, n))

\* (the preview without the cut to the first 256 bytes)
hexPreviewNoSlice(bytes) ==
    LET pairs == [i \in 1..Len(bytes) |-> padStart2(toString16(bytes[i]))]
        m == matchChunks(join(pairs, " "), HexChunkChars)
    IN  IF m = None THEN "" ELSE join(m[1], "\n")

hexPreview(bytes) ==
    LET sl == slice0(bytes, HexPreviewBytes)
        pairs == [i \in 1..Len(sl) |-> padStart2(toString16(sl[i]))]
        m == matchChunks(join(pairs, " "), HexChunkChars)
    IN  IF m = None THEN "" ELSE join(m[1], "\n")

-----------------------------------------------------------------------------
(* JSON.parse and JSON.stringify(v, null, 2) on the texts of the model.    *)
(* Over the characters of TextBytes the JSON grammar is                    *)
(*   json   = ws value ws              ws     = "\n"*                      *)
(*   value  = number | string | object number = "1"+                       *)
(*   string = '"' c* '"' , c none of '"' and "\n"                          *)
(*   object = '{' ws '}' | '{' ws string ws ':' ws value ws '}'            *)
(* A parsed value is [t, s, v]: t its type, s the digits of a number, the  *)
(* content of a string or the key of an object, v the member's value.      *)

RECURSIVE SkipWs(_, _)
SkipWs(s, i) ==
    IF i <= Len(s) /\ CharAt(s, i) = "\n" THEN SkipWs(s, i + 1) ELSE i

RECURSIVE DigitsEnd(_, _)
DigitsEnd(s, i) ==
    IF i <= Len(s) /\ CharAt(s, i) = "1" THEN DigitsEnd(s, i + 1) ELSE i

\* the position of the quote closing the string whose content starts at i,
\* or 0 when the string is unterminated or holds a control character
RECURSIVE StringEnd(_, _)
StringEnd(s, i) ==
    IF i > Len(s) \/ CharAt(s, i) = "\n" THEN 0
    ELSE IF CharAt(s, i) = "\"" THEN i
    ELSE StringEnd(s, i + 1)

ParseFail == [ok |-> FALSE, val |-> None, next |-> 0]

ParseString(s, i) ==
    IF i <= Len(s) /\ CharAt(s, i) = "\"" /\ StringEnd(s, i + 1) > 0
    THEN LET e == StringEnd(s, i + 1)
         IN  [ok |-> TRUE,
              val |-> Some([t |-> "string", s |-> SubSeq(s, i + 1, e - 1), v |-> None]),
              next |-> e + 1]
    ELSE ParseFail

RECURSIVE ParseValue(_, _)
ParseValue(s, i) ==
    IF i > Len(s) THEN ParseFail
    ELSE IF CharAt(s, i) = "1"
    THEN [ok |-> TRUE,
          val |-> Some([t |-> "number", s |-> SubSeq(s, i, DigitsEnd(s, i) - 1), v |-> None]),
          next |-> DigitsEnd(s, i)]
    ELSE IF CharAt(s, i) = "\"" THEN ParseString(s, i)
    ELSE IF CharAt(s, i) = "{"
    THEN LET k == SkipWs(s, i + 1)
         IN  IF k <= Len(s) /\ CharAt(s, k) = "}"
             THEN [ok |-> TRUE, val |-> Some([t |-> "object", s |-> "", v |-> None]),
                   next |-> k + 1]
             ELSE LET key == ParseString(s, k)
                      c == SkipWs(s, key.next)
                  IN  IF key.ok /\ c <= Len(s) /\ CharAt(s, c) = ":"
                      THEN LET m == ParseValue(s, SkipWs(s, c + 1))
                               z == SkipWs(s, m.next)
                           IN  IF m.ok /\ z <= Len(s) /\ CharAt(s, z) = "}"
                               THEN [ok |-> TRUE,
                                     val |-> Some([t |-> "object", s |-> key.val[1].s,
                                                   v |-> m.val]),
                                     next |-> z + 1]
                               ELSE ParseFail
                      ELSE ParseFail
    ELSE ParseFail

\* JSON.parse(s): the value, or None when it throws a SyntaxError
JSONparse(s) ==
    LET r == ParseValue(s, SkipWs(s, 1))
    IN  IF r.ok /\ SkipWs(s, r.next) = Len(s) + 1 THEN r.val ELSE None

RECURSIVE Spaces(_)
Spaces(n) == IF n = 0 THEN "" ELSE " " \o Spaces(n - 1)

JsonIndent == 2   \* JSON.stringify(json, null, 2)

\* JSON.stringify(val, null, 2), val at nesting depth d
RECURSIVE StringifyAt(_, _)
StringifyAt(val, d) ==
    IF val.t = "number" THEN val.s
    ELSE IF val.t = "string" THEN "\"" \o val.s \o "\""
    ELSE IF val.v = None THEN "{}"
    ELSE "{\n" \o Spaces(JsonIndent * (d + 1)) \o "\"" \o val.s \o "\": "
         \o StringifyAt(val.v[1], d + 1) \o "\n" \o Spaces(JsonIndent * d) \o "}"

JSONstringify(val) == StringifyAt(val, 0)

-----------------------------------------------------------------------------
(* The fragments written to #app.innerHTML, as the values interpolated     *)
(* into each template: the heading (kind), the MIME type, the object URL,  *)
(* the <pre> text, the iframe's srcdoc value and whether it carries a      *)
(* sandbox attribute, the download attribute (None: no link, Some(""): a   *)
(* bare attribute), the number given to formatBytes, the error message,    *)
(* and whether the cannot-preview warning is shown.                        *)

Blank ==
    [kind |-> "", mime |-> "", url |-> 0, pre |-> "", srcdoc |-> "",
     sandbox |-> FALSE, download |-> None, size |-> 0, message |-> "",
     warning |-> FALSE]

LoadingFragment == [Blank EXCEPT !.kind = "Loading"]

ErrorFragment(message) == [Blank EXCEPT !.kind = "Error", !.message = message]

handleImage(e, buffer, mime, url) ==
    [Blank EXCEPT !.kind = "Image", !.mime = mime, !.url = url, !.size = Len(buffer),
        !.download = IF e = "main" THEN Some("image." \o getExtensionFromMime(e, mime))
                     ELSE Some("")]

handleVideo(e, buffer, mime, url) ==
    [Blank EXCEPT !.kind = "Video", !.mime = mime, !.url = url, !.size = Len(buffer),
        !.download = IF e = "main" THEN Some("video." \o getExtensionFromMime(e, mime))
                     ELSE Some("")]

handleAudio(e, buffer, mime, url) ==
    [Blank EXCEPT !.kind = "Audio", !.mime = mime, !.url = url, !.size = Len(buffer),
        !.download = IF e = "main" THEN Some("audio." \o getExtensionFromMime(e, mime))
                     ELSE Some("")]

handleHTML(html) ==
    [Blank EXCEPT !.kind = "HTML", !.srcdoc = EscapeQuot(html), !.sandbox = FALSE,
        !.pre = EscapeLtGt(html)]

handleText(txt, mime) ==
    [Blank EXCEPT !.kind = "Text", !.mime = mime, !.pre = EscapeLtGt(txt),
        !.size = Len(txt)]

handlePDF(e, buffer, url) ==
    [Blank EXCEPT !.kind = "PDF", !.url = url, !.size = Len(buffer),
        !.download = IF e = "main" THEN Some("document.pdf") ELSE Some("")]

handleArchive(e, buffer, mime, url) ==
    [Blank EXCEPT !.kind = "Archive", !.mime = mime, !.url = url,
        !.size = Len(buffer), !.warning = TRUE,
        !.download = Some("archive." \o getExtensionFromMime(e, mime))]

handleJSONMain(jsonText) ==
    LET jsonContent == JSONparse(jsonText)
    IN  IF jsonContent = None
        THEN [Blank EXCEPT !.kind = "Invalid JSON", !.pre = EscapeLtGt(jsonText)]
        ELSE [Blank EXCEPT !.kind = "JSON",
                 !.pre = EscapeLtGt(JSONstringify(jsonContent[1])),
                 !.size = Len(jsonText)]

handleJSONApp(txt) ==
    LET json == JSONparse(txt)
    IN  IF json = None
        THEN [Blank EXCEPT !.kind = "Invalid JSON", !.pre = txt,
                 !.message = "SyntaxError"]
        ELSE [Blank EXCEPT !.kind = "JSON", !.pre = JSONstringify(json[1]),
                 !.size = Len(txt)]

handleJSON(e, txt) == IF e = "main" THEN handleJSONMain(txt) ELSE handleJSONApp(txt)

handleBinary(e, buffer, mime, url) ==
    [Blank EXCEPT !.kind = "Binary", !.mime = mime, !.url = url,
        !.size = Len(buffer), !.pre = hexPreview(buffer),
        !.download = IF e = "main" THEN Some("file.bin") ELSE Some("")]

\* the handlers that call URL.createObjectURL
UrlHandlers ==
    {"handleImage", "handleVideo", "handleAudio", "handlePDF", "handleArchive",
     "handleBinary"}

\* the fragment a handler writes once its body read has resolved
Render(e, handler, body, mime, url) ==
    CASE handler = "handleImage" -> handleImage(e, body, mime, url)
      [] handler = "handleVideo" -> handleVideo(e, body, mime, url)
      [] handler = "handleAudio" -> handleAudio(e, body, mime, url)
      [] handler = "handleHTML" -> handleHTML(text(body))
      [] handler = "handleText" -> handleText(text(body), mime)
      [] handler = "handlePDF" -> handlePDF(e, body, url)
      [] handler = "handleArchive" -> handleArchive(e, body, mime, url)
      [] handler = "handleJSON" -> handleJSON(e, text(body))
      [] handler = "handleBinary" -> handleBinary(e, body, mime, url)

-----------------------------------------------------------------------------
(* What the environment may supply: responses of the ByteSource (declared  *)
(* content type and body) and results of fileTypeFromBuffer.               *)

SeqsUpTo(S, n) == UNION {[1..k -> S] : k \in 0..n}

\* a payload of n bytes that runs through the bytes of the model
PatternBytes == <<97, 60, 49, 62, 10, 34, 58, 123, 125>>
Pattern(n) == [i \in 1..n |-> PatternBytes[((i - 1) % Len(PatternBytes)) + 1]]

SamplePayloads ==
    { <<123, 34, 97, 34, 58, 49, 125>>,               \* {"a":1}
      <<123, 97, 58, 125>>,                           \* {a:}
      <<34, 60, 97, 62, 34>>,                         \* "<a>"
      <<123, 34, 60, 34, 58, 123, 34, 62, 34, 58, 49, 49, 125, 125>>,  \* {"<":{">":11}}
      <<60, 97, 62, 34, 97, 34, 60, 97, 62>> }        \* <a>"a"<a>

LongPayloads == {Pattern(n) : n \in {15, 16, 17, 24, 25, 33, 255, 256, 257, 300}}

Payloads == SeqsUpTo(TextBytes, MaxLen) \cup SamplePayloads \cup LongPayloads

ContentTypes ==
    { None, Some("") } \cup
    { Some(m) : m \in
        { "image/png", "image/svg+xml", "image/", "image", "IMAGE/PNG",
          "video/mp4", "audio/mpeg", "text/html", "application/xhtml+xml",
          "text/html; charset=utf-8", "text/plain", "text/json", "text/",
          "application/pdf", "application/json", "application/octet-stream",
          "application/x-msdownload" } \cup archiveTypes }

WideResponses == [contentType : ContentTypes, body : Payloads]

WideDetections ==
    { None, Some("image/png"), Some("video/mp4"), Some("application/pdf"),
      Some("application/zip"), Some("application/x-msdownload") }

\* the few responses and detections of the runs with several requests
Responses ==
    { [contentType |-> Some("image/png"), body |-> <<97, 49>>],
      [contentType |-> None, body |-> <<60, 62>>],
      [contentType |-> Some("text/plain"), body |-> <<60, 97, 62>>] }

Detections == { None, Some("application/pdf") }

ExamplePath ==
    "ipfs://bafybeiaysi4s6lnjev27ln5icwm6tueaw2vdykrtjkwiphwekaywqhcjze/I/Kiwix_logo_v3.svg.png.webp"

\* the values of input#ipfsHash when search() runs
SearchInputs == { "", "ipfs://cid" }

-----------------------------------------------------------------------------
(* Requests.  pc is the await a request is suspended at:                   *)
(*   "fetch" : await fetch(path, ...)                                      *)
(*   "sniff" : await resp.clone().arrayBuffer(); await fileTypeFromBuffer  *)
(*   "read"  : the handler's await resp.arrayBuffer() / resp.text()        *)
(*   "done"  : handleResponse returned, the caller's promise is fulfilled  *)
(*   "rejected" : the caller's promise is rejected, and nothing handles it *)

NewReq(path) ==
    [path |-> path, pc |-> "fetch", contentType |-> None, body |-> <<>>,
     mimeType |-> None, detected |-> None, handler |-> "", sniffed |-> FALSE,
     failedAt |-> "", cloneReads |-> 0, bodyReads |-> 0]

\* handleResponse(resp, resp.headers.get('content-type')) up to its first await
HandleStart(r, resp) ==
    LET r1 == [r EXCEPT !.contentType = resp.contentType, !.body = resp.body]
    IN  IF ~appPresent THEN [r1 EXCEPT !.pc = "done"]
        ELSE IF Falsy(resp.contentType) THEN [r1 EXCEPT !.pc = "sniff"]
        ELSE [r1 EXCEPT !.mimeType = Some(resp.contentType[1]),
                        !.handler = Dispatch(resp.contentType[1]),
                        !.pc = "read"]

\* showLoading()
showLoading(i) ==
    IF appPresent
    THEN app' = LoadingFragment /\ owner' = i
    ELSE UNCHANGED <<app, owner>>

\* search(): reads the input and calls searchRaw, which shows the loading
\* fragment and starts the fetch
Search(input) ==
    /\ entry = "app"
    /\ Len(reqs) < MaxRequests
    /\ IF input = ""
       THEN UNCHANGED <<reqs, app, owner>>
       ELSE /\ showLoading(Len(reqs) + 1)
            /\ reqs' = Append(reqs, NewReq(input))
    /\ UNCHANGED <<entry, appPresent, objectURLs>>

\* the fetch resolves with a response and handleResponse starts
FetchResolve(i, resps) ==
    /\ reqs[i].pc = "fetch"
    /\ \E resp \in resps : reqs' = [reqs EXCEPT ![i] = HandleStart(@, resp)]
    /\ UNCHANGED <<entry, appPresent, app, owner, objectURLs>>

\* the fetch rejects: searchRaw (the module, in main.ts) has no handler for it
FetchReject(i) ==
    /\ reqs[i].pc = "fetch"
    /\ reqs' = [reqs EXCEPT ![i].pc = "rejected", ![i].failedAt = "fetch"]
    /\ UNCHANGED <<entry, appPresent, app, owner, objectURLs>>

\* (the fallback reading the response itself instead of a clone of it)
SniffReadOriginal(r) == [r EXCEPT !.bodyReads = @ + 1]

\* resp.clone().arrayBuffer(): the fallback reads a clone of the response
SniffRead(r) == [r EXCEPT !.cloneReads = @ + 1]

\* the clone is read and the detector answers; the chain picks the handler
SniffResolve(i, dets) ==
    /\ reqs[i].pc = "sniff"
    /\ \E detected \in dets :
         reqs' = [reqs EXCEPT ![i] =
                    [SniffRead(@) EXCEPT
                        !.detected = detected,
                        !.sniffed = TRUE,
                        !.mimeType = Some(DetectedOrDefault(detected)),
                        !.handler = Dispatch(DetectedOrDefault(detected)),
                        !.pc = "read"]]
    /\ UNCHANGED <<entry, appPresent, app, owner, objectURLs>>

\* reading the clone or the detector fails, outside handleResponse's try
SniffReject(i) ==
    /\ reqs[i].pc = "sniff"
    /\ reqs' = [reqs EXCEPT ![i] =
                   [SniffRead(@) EXCEPT !.pc = "rejected", !.failedAt = "sniff"]]
    /\ UNCHANGED <<entry, appPresent, app, owner, objectURLs>>

\* the handler's body read resolves: it creates its object URL (which may
\* throw, caught by handleResponse) and writes its fragment
BodyResolve(i) ==
    /\ reqs[i].pc = "read"
    /\ \E createFails \in BOOLEAN :
         LET r == reqs[i]
             url == Cardinality(objectURLs) + 1
         IN  IF r.handler \in UrlHandlers
             THEN IF createFails
                  THEN /\ app' = ErrorFragment("createObjectURL failed")
                       /\ reqs' = [reqs EXCEPT ![i].pc = "done", ![i].bodyReads = @ + 1,
                                               ![i].failedAt = "create"]
                       /\ UNCHANGED objectURLs
                  ELSE /\ app' = Render(entry, r.handler, r.body, r.mimeType[1], url)
                       /\ reqs' = [reqs EXCEPT ![i].pc = "done", ![i].bodyReads = @ + 1]
                       /\ objectURLs' = objectURLs \cup {url}
             ELSE /\ ~createFails
                  /\ app' = Render(entry, r.handler, r.body, r.mimeType[1], 0)
                  /\ reqs' = [reqs EXCEPT ![i].pc = "done", ![i].bodyReads = @ + 1]
                  /\ UNCHANGED objectURLs
    /\ owner' = i
    /\ UNCHANGED <<entry, appPresent>>

\* the handler's body read rejects: handleResponse's catch writes the error
BodyReject(i) ==
    /\ reqs[i].pc = "read"
    /\ app' = ErrorFragment("body read failed")
    /\ owner' = i
    /\ reqs' = [reqs EXCEPT ![i].pc = "done", ![i].bodyReads = @ + 1,
                            ![i].failedAt = "read"]
    /\ UNCHANGED <<entry, appPresent, objectURLs>>

-----------------------------------------------------------------------------
(* Specifications.                                                         *)

\* the state once the module is evaluated: main.ts awaits its one fetch;
\* the app has called searchRaw on the example path
Init ==
    /\ entry \in {"main", "app"}
    /\ appPresent \in BOOLEAN
    /\ reqs = <<NewReq(ExamplePath)>>
    /\ app = IF entry = "app" /\ appPresent THEN LoadingFragment ELSE Blank
    /\ owner = IF entry = "app" /\ appPresent THEN 1 ELSE 0
    /\ objectURLs = {}

Next ==
    \/ \E input \in SearchInputs : Search(input)
    \/ \E i \in 1..Len(reqs) : FetchResolve(i, Responses)
    \/ \E i \in 1..Len(reqs) : FetchReject(i)
    \/ \E i \in 1..Len(reqs) : SniffResolve(i, Detections)
    \/ \E i \in 1..Len(reqs) : SniffReject(i)
    \/ \E i \in 1..Len(reqs) : BodyResolve(i)
    \/ \E i \in 1..Len(reqs) : BodyReject(i)

Spec == Init /\ [][Next]_vars

\* one request (no search is made), over all the responses of the model
NextRender ==
    \/ \E i \in 1..Len(reqs) : FetchResolve(i, WideResponses)
    \/ \E i \in 1..Len(reqs) : FetchReject(i)
    \/ \E i \in 1..Len(reqs) : SniffResolve(i, WideDetections)
    \/ \E i \in 1..Len(reqs) : SniffReject(i)
    \/ \E i \in 1..Len(reqs) : BodyResolve(i)
    \/ \E i \in 1..Len(reqs) : BodyReject(i)

SpecRender == Init /\ [][NextRender]_vars

-----------------------------------------------------------------------------
(* Properties of the search pipeline (checked under Spec).                 *)

\* C1: last-request-wins.  Every search writes the slot when it is issued
\* (its loading fragment), so the claim is that from then on the slot is
\* only ever written by the most recently issued request: the slot never
\* holds what an earlier request wrote.
C1_LastRequestWins == owner = 0 \/ owner = Len(reqs)

\* C2: once handleResponse has been invoked with the display element
\* present, it never rejects: the only rejection a request can end in is
\* that of its fetch, and a request that completed has written the slot
\* (a rendered fragment or the error fragment).
C2_HandleResponseNeverRejects ==
    \A i \in DOMAIN reqs :
        /\ reqs[i].pc = "rejected" => reqs[i].failedAt = "fetch"
        /\ (appPresent /\ reqs[i].pc = "done" /\ owner = i)
              => app.kind \notin {"", "Loading"}

\* C3: a search whose fetch fails ends with the inline error message in the
\* slot, not with a rejection nobody handles and its loading fragment left
\* in the slot.
C3_FetchFailureSurfaced ==
    \A i \in DOMAIN reqs :
        (appPresent /\ reqs[i].failedAt = "fetch")
            => /\ reqs[i].pc # "rejected"
               /\ (owner = i => app.kind = "Error")

\* C4: the object URLs not yet released are at most the one the slot's
\* current fragment refers to.
C4_HandlesReleased == objectURLs \subseteq {app.url}

-----------------------------------------------------------------------------
(* Properties of type resolution and dispatch (checked under SpecRender).  *)

\* whether handleResponse has got past its type resolution for request r
Resolved(r) == appPresent /\ r.pc \in {"read", "done"}

\* C5: type resolution.  A declared content type that is present and not
\* empty is the resolved type, and the detector is not invoked (the clone
\* is never read); a declared type that is null or empty makes the detector
\* run, and the resolved type is what it detected, or
\* application/octet-stream when it detected nothing.  The resolved type is
\* never absent and never empty.
C5_TypeResolution ==
    \A i \in DOMAIN reqs :
        LET r == reqs[i]
            declared == r.contentType # None /\ r.contentType # Some("")
        IN  Resolved(r) =>
              /\ r.mimeType # None
              /\ r.mimeType # Some("")
              /\ declared =>
                    r.mimeType = r.contentType /\ ~r.sniffed /\ r.cloneReads = 0
              /\ ~declared =>
                    /\ r.sniffed
                    /\ r.mimeType = IF r.detected = None
                                    THEN Some("application/octet-stream")
                                    ELSE r.detected

\* C5 witness: an empty declared type went to the detector, which found
\* nothing, and the type resolved to application/octet-stream.
C5_Witness ==
    \E i \in DOMAIN reqs :
        /\ reqs[i].contentType = Some("")
        /\ reqs[i].pc = "done"
        /\ reqs[i].sniffed
        /\ reqs[i].detected = None
        /\ reqs[i].mimeType = Some("application/octet-stream")

\* The rules of the classification in their order, stated on the MIME
\* string alone, and the handler of each.
RuleMatches(k, m) ==
    CASE k = 1 -> Len(m) >= 6 /\ SubSeq(m, 1, 6) = "image/"
      [] k = 2 -> Len(m) >= 6 /\ SubSeq(m, 1, 6) = "video/"
      [] k = 3 -> Len(m) >= 6 /\ SubSeq(m, 1, 6) = "audio/"
      [] k = 4 -> m \in {"text/html", "application/xhtml+xml"}
      [] k = 5 -> Len(m) >= 5 /\ SubSeq(m, 1, 5) = "text/"
      [] k = 6 -> m = "application/pdf"
      [] k = 7 -> m \in {"application/zip", "application/x-zip-compressed",
                         "application/x-rar-compressed",
                         "application/x-7z-compressed", "application/gzip",
                         "application/x-gzip", "application/x-tar",
                         "application/x-bzip2"}
      [] k = 8 -> m \in {"application/json", "text/json"}

RuleHandler ==
    <<"handleImage", "handleVideo", "handleAudio", "handleHTML", "handleText",
      "handlePDF", "handleArchive", "handleJSON">>

FirstMatch(m) ==
    IF \E k \in DOMAIN RuleHandler : RuleMatches(k, m)
    THEN RuleHandler[CHOOSE k \in DOMAIN RuleHandler :
                        /\ RuleMatches(k, m)
                        /\ \A j \in 1..(k - 1) : ~RuleMatches(j, m)]
    ELSE "handleBinary"

\* the headings each handler can write
HandlerKinds(h) ==
    CASE h = "handleImage" -> {"Image"}
      [] h = "handleVideo" -> {"Video"}
      [] h = "handleAudio" -> {"Audio"}
      [] h = "handleHTML" -> {"HTML"}
      [] h = "handleText" -> {"Text"}
      [] h = "handlePDF" -> {"PDF"}
      [] h = "handleArchive" -> {"Archive"}
      [] h = "handleJSON" -> {"JSON", "Invalid JSON"}
      [] h = "handleBinary" -> {"Binary"}

\* request i completed without a failure and its fragment is in the slot
Rendered(i) ==
    appPresent /\ reqs[i].pc = "done" /\ reqs[i].failedAt = "" /\ owner = i

\* C6: dispatch is first-match-wins over the ordered rules: the handler
\* awaited for a resolved type is that of the first rule matching it, and
\* handleBinary when no rule matches; text/html and application/xhtml+xml
\* reach handleHTML; the fragment written is one of that handler alone.
C6_Dispatch ==
    \A i \in DOMAIN reqs :
        LET r == reqs[i]
        IN  Resolved(r) =>
              /\ r.handler = FirstMatch(r.mimeType[1])
              /\ r.mimeType[1] \in {"text/html", "application/xhtml+xml"}
                    => r.handler = "handleHTML"
              /\ Rendered(i) => app.kind \in HandlerKinds(r.handler)

\* C6 witness: text/html was rendered by handleHTML.
C6_Witness ==
    \E i \in DOMAIN reqs :
        /\ Rendered(i)
        /\ reqs[i].mimeType = Some("text/html")
        /\ reqs[i].handler = "handleHTML"
        /\ app.kind = "HTML"

\* C7: a payload whose resolved type is text/json is rendered by
\* handleJSON, as application/json is, and not by handleText.
C7_TextJsonIsStructuredData ==
    \A i \in DOMAIN reqs :
        (Resolved(reqs[i]) /\ reqs[i].mimeType = Some("text/json"))
            => /\ reqs[i].handler = "handleJSON"
               /\ Rendered(i) => app.kind \in {"JSON", "Invalid JSON"}

-----------------------------------------------------------------------------
(* Properties of the renderers (checked under SpecRender).                 *)

\* C8: handleJSON always shows a result: the 2-space pretty-printed value
\* when the text parses and the raw text otherwise, and in both cases with
\* every '<' and '>' of the shown text escaped.
C8_JsonShownEscaped ==
    \A i \in DOMAIN reqs :
        (Rendered(i) /\ reqs[i].handler = "handleJSON") =>
            LET t == text(reqs[i].body)
                shown == IF JSONparse(t) # None
                         THEN JSONstringify(JSONparse(t)[1]) ELSE t
            IN  /\ app.kind \in {"JSON", "Invalid JSON"}
                /\ app.pre = EscapeLtGt(shown)
                /\ ~Contains(app.pre, "<")
                /\ ~Contains(app.pre, ">")

\* C9: for an HTML payload neither the srcdoc attribute value nor the
\* view-source block holds an unescaped '<', '>' or '"', and the iframe is
\* sandboxed.
C9_MarkupEscapedAndSandboxed ==
    \A i \in DOMAIN reqs :
        (Rendered(i) /\ reqs[i].handler = "handleHTML") =>
            /\ \A c \in {"<", ">", "\""} :
                   ~Contains(app.srcdoc, c) /\ ~Contains(app.pre, c)
            /\ app.sandbox

\* two lowercase hex digits of a byte
HexPair(b) ==
    SubSeq("0123456789abcdef", (b \div 16) + 1, (b \div 16) + 1)
        \o SubSeq("0123456789abcdef", (b % 16) + 1, (b % 16) + 1)

\* the pairs of bytes lo..hi of the first n bytes, perLine bytes a line:
\* after each pair lineEnd at the end of a full line, a space otherwise,
\* and nothing after the last pair
RECURSIVE DumpRange(_, _, _, _, _, _)
DumpRange(bytes, lo, hi, n, perLine, lineEnd) ==
    IF lo > hi THEN ""
    ELSE IF lo = hi
    THEN HexPair(bytes[lo])
            \o (IF lo = n THEN "" ELSE IF lo % perLine = 0 THEN lineEnd ELSE " ")
    ELSE DumpRange(bytes, lo, (lo + hi) \div 2, n, perLine, lineEnd)
            \o DumpRange(bytes, (lo + hi) \div 2 + 1, hi, n, perLine, lineEnd)

Dump(bytes, perLine, lineEnd) ==
    LET n == IF Len(bytes) < 256 THEN Len(bytes) ELSE 256
    IN  DumpRange(bytes, 1, n, n, perLine, lineEnd)

\* C10 (as amended): the hex dump of a binary payload of n bytes is the
\* first min(n, 256) bytes in order as two-digit lowercase hex pairs, 16
\* bytes per line: every pair but the last is followed by one space, and a
\* newline follows the space that ends each full line; 256 bytes are all
\* covered, of 300 only the first 256, and no bytes give the empty dump.
C10_HexDump16PerLine ==
    \A i \in DOMAIN reqs :
        (Rendered(i) /\ reqs[i].handler = "handleBinary") =>
            /\ app.pre = Dump(reqs[i].body, 16, " \n")
            /\ Len(reqs[i].body) = 0 => app.pre = ""

\* C10 witness: a binary payload of 300 bytes was rendered.
C10_Witness ==
    \E i \in DOMAIN reqs :
        /\ Rendered(i)
        /\ reqs[i].handler = "handleBinary"
        /\ Len(reqs[i].body) = 300
        /\ app.kind = "Binary"
        /\ Len(app.pre) > 0

\* C10 (as claimed): the same dump laid out 24 bytes per line, the pairs of
\* a line separated by single spaces and the lines by a newline.
C10_HexDump24PerLine ==
    \A i \in DOMAIN reqs :
        (Rendered(i) /\ reqs[i].handler = "handleBinary") =>
            app.pre = Dump(reqs[i].body, 24, "\n")

-----------------------------------------------------------------------------
(* Properties of the archive view (checked under SpecRender).              *)

\* the extension the MIME-to-extension table gives an archive type
ArchiveExt(m) ==
    CASE m = "application/zip" -> "zip"
      [] m = "application/x-rar-compressed" -> "rar"
      [] m = "application/x-7z-compressed" -> "7z"
      [] OTHER -> "bin"

\* C11: a payload whose resolved type is one of the eight archive types is
\* rendered as the Archive view: nothing of the payload is decoded or
\* listed (no text block, no embedded document), the cannot-preview warning
\* is shown, and the download is named archive.<ext>, <ext> the table's
\* entry for the type and bin when it has none; application/zip gives zip.
C11_ArchiveView ==
    \A i \in DOMAIN reqs :
        (Rendered(i) /\ reqs[i].mimeType[1] \in
            {"application/zip", "application/x-zip-compressed",
             "application/x-rar-compressed", "application/x-7z-compressed",
             "application/gzip", "application/x-gzip", "application/x-tar",
             "application/x-bzip2"}) =>
            /\ reqs[i].handler = "handleArchive"
            /\ app.kind = "Archive"
            /\ app.mime = reqs[i].mimeType[1]
            /\ app.pre = "" /\ app.srcdoc = ""
            /\ app.warning
            /\ app.size = Len(reqs[i].body)
            /\ app.download = <<"archive." \o ArchiveExt(reqs[i].mimeType[1])>>
            /\ reqs[i].mimeType[1] = "application/zip"
                  => app.download = <<"archive.zip">>

\* C11 witness: an archive type without a table entry was rendered with the
\* bin extension, from a payload that is not empty.
C11_Witness ==
    \E i \in DOMAIN reqs :
        /\ Rendered(i)
        /\ reqs[i].mimeType = Some("application/gzip")
        /\ Len(reqs[i].body) > 0
        /\ app.kind = "Archive"
        /\ app.download = Some("archive.bin")

-----------------------------------------------------------------------------
(* Properties of the body reads (checked under SpecRender).                *)

\* C12: within one handleResponse the response body is read at most once:
\* nothing reads it before the handler does (the type fallback, which runs
\* only for an absent or empty declared type, reads a clone, once), a
\* request at its handler's await has not read it yet, and a request whose
\* handleResponse returned after dispatch has read it exactly once.
C12_BodyReadOnce ==
    \A i \in DOMAIN reqs :
        LET r == reqs[i]
        IN  /\ r.bodyReads <= 1
            /\ r.cloneReads <= 1
            /\ r.pc \in {"fetch", "sniff", "read", "rejected"} => r.bodyReads = 0
            /\ r.sniffed => r.cloneReads = 1
            /\ (r.contentType # None /\ r.contentType # Some("")) => r.cloneReads = 0
            /\ (Resolved(r) /\ r.pc = "done") => r.bodyReads = 1
            /\ r.handler = "" => r.bodyReads = 0

\* C12 witness: a response without a declared type was sniffed from a clone
\* and then rendered by its handler from one read of the body.
C12_Witness ==
    \E i \in DOMAIN reqs :
        /\ Rendered(i)
        /\ reqs[i].contentType = None
        /\ reqs[i].sniffed
        /\ reqs[i].cloneReads = 1
        /\ reqs[i].bodyReads = 1
        /\ reqs[i].handler # ""

=============================================================================
